---- MODULE Spec2Model ----
(***************************************************************************)
(* The run-dispatch lifecycle of main.py: the table custom_patchflow_runs, *)
(* save_run's partial update, run_patchflow's status machine around the    *)
(* child process, check_and_run_pending's fetch / gather cycle and the     *)
(* one-shot and daemon drivers.  One dispatcher is one OS process with one *)
(* asyncio event loop; several dispatchers share only the table.           *)
(***************************************************************************)
EXTENDS Integers, Sequences, FiniteSets, TLC

\* ------------------------------------------------------------------ bounds
\* Poll cycles one dispatcher starts (the daemon's while True is unbounded).
MaxCycles == 2

\* Ids of the rows of custom_patchflow_runs, and the dispatcher processes.
Runs == {"r1", "r2"}
Disp == {"A", "B"}

\* ------------------------------------------------------------------ values
\* Python's None and SQL's NULL.
None == "None"
\* Python dicts (a run's inputs / outputs / meta, a flow's graph), as tokens.
InputDicts == {"{in}", "{in2}"}
OutputDicts == {"{old}", "{result}"}
MetaDicts == {"{is_private:true}", "{is_private:false}"}
GraphDicts == {"{name}"}
Dicts == InputDicts \cup OutputDicts \cup MetaDicts \cup GraphDicts

Statuses == {"pending", "running", "pr_created", "failed"}
Terminal == {"pr_created", "failed"}

\* json.dumps of a dict: the text stored in a json column.
JsonDumps(v) == "json:" \o v
\* The driver's decoding of a json column back into a dict.
JsonLoads(t) == CHOOSE v \in Dicts : JsonDumps(v) = t
\* A column value as the cursor returns it.
FromColumn(c) == IF c = None THEN None ELSE JsonLoads(c)

\* ORGANIZATION_ID of this deployment, and the query's LIMIT.
organization_id == "org"
OrgIds == {"org", "other"}
Limit == 10

\* The columns of a fetched row (id is the key of store), p_graph joined in.
Columns == {"status", "inputs", "outputs", "meta", "organization_id", "p_graph"}
\* save_run's default argument only=None.
NoOnly == {None}

\* What the child process left at output_path: no file, a file json.load rejects,
\* or a file holding a dict.
Absent == "absent"
Garbage == "garbage"
Files == {Absent, Garbage, "{result}"}

VARIABLES
    store,      \* custom_patchflow_runs: id -> row
    procs,      \* the dispatcher processes that were started
    read_only,  \* per dispatcher: READ_ONLY
    mode,       \* per dispatcher: "oneshot" (main) or "daemon" (main_daemon)
    pc,         \* per dispatcher: "off", "fetch", "gather", "sleep", "exit", "stopped",
                \* "raised"
    cycle,      \* per dispatcher: poll cycles started
    runs,       \* per dispatcher: the run ids of this cycle, in fetch order
    mem,        \* per dispatcher, per run: the PatchflowRun dict in memory
    tpc,        \* per dispatcher, per run: where its run_patchflow task stands
    cur,        \* per dispatcher: the task the event loop is executing, or None
    proc,       \* per dispatcher, per run: the child process of the current task
    alive,      \* per dispatcher, per run: child processes spawned and not yet exited
    launches,   \* per dispatcher, per run: child processes spawned so far
    hist,       \* per dispatcher, per run: the status values the task has assigned
    io          \* the save_run call of the latest step and what it logged

vars == <<store, procs, read_only, mode, pc, cycle, runs, mem, tpc, cur, proc,
          alive, launches, hist, io>>

\* ------------------------------------------------------------------ save_run
\* if only is None: only = run.keys()
OnlyKeys(run, only) == IF only = NoOnly THEN DOMAIN run ELSE only

\* Faulty variant of UpdateFields: every key of the run is updated, whatever `only` names.
AllRunKeys(run, only) == {k \in DOMAIN run : k # "patchflow"}
\* Lines 70-73: the keys of `only` that go into the UPDATE.
UpdateFields(run, only) == {k \in only : k \in DOMAIN run /\ k # "patchflow"}

\* json.dumps(run[key]) if isinstance(run[key], dict) else run[key]
UpdateValue(v) == IF v \in Dicts THEN JsonDumps(v) ELSE v

\* UPDATE custom_patchflow_runs SET <keys> WHERE id = run["id"]
ExecuteUpdate(st, run, keys) ==
    [i \in DOMAIN st |->
        IF i = run.id
        THEN [c \in DOMAIN st[i] |-> IF c \in keys THEN UpdateValue(run[c]) ELSE st[i][c]]
        ELSE st[i]]

WouldUpdate(run, keys) ==
    [level |-> "info", msg |-> "Would update run", id |-> run.id, fields |-> keys,
     values |-> [k \in keys |-> UpdateValue(run[k])]]
ErrorUpdating(run) ==
    [level |-> "error", msg |-> "Error updating run", id |-> run.id, fields |-> {},
     values |-> <<>>]

\* Faulty variant of save_run: the read_only test of line 81 is missing.
WriteAnyway(st, run, only, dry, ok) ==
    LET keys == UpdateFields(run, OnlyKeys(run, only)) IN
    IF keys = {} THEN [store |-> st, log |-> <<>>]
    ELSE IF ok THEN [store |-> ExecuteUpdate(st, run, keys), log |-> <<>>]
    ELSE [store |-> st, log |-> <<ErrorUpdating(run)>>]
\* save_run(run, only) on table st; dry is read_only, ok whether the database
\* accepted the update.  The new table and the lines logged.
save_run(st, run, only, dry, ok) ==
    LET keys == UpdateFields(run, OnlyKeys(run, only)) IN
    IF keys = {} THEN [store |-> st, log |-> <<>>]
    ELSE IF dry THEN [store |-> st, log |-> <<WouldUpdate(run, keys)>>]
    ELSE IF ok THEN [store |-> ExecuteUpdate(st, run, keys), log |-> <<>>]
    ELSE [store |-> st, log |-> <<ErrorUpdating(run)>>]

NoCall == [id |-> None, only |-> {}, dry |-> FALSE, log |-> <<>>]

\* The step calls save_run(run, only) in dispatcher d.
Saves(d, run, only, ok) ==
    LET res == save_run(store, run, only, read_only[d], ok) IN
    /\ store' = res.store
    /\ io' = [id |-> run.id, only |-> OnlyKeys(run, only), dry |-> read_only[d],
              log |-> res.log]

\* ------------------------------------------------------------------ fetch
\* Faulty variant of IsSelected: failed rows are picked up again.
SelectsFailedToo(row) ==
    /\ row.status \in {"pending", "failed"}
    /\ row.organization_id = organization_id
    /\ FromColumn(row.meta) = "{is_private:true}"
\* WHERE r.status = 'pending' AND r.organization_id = ... AND r.meta->>'is_private' = 'true'
IsSelected(row) ==
    /\ row.status = "pending"
    /\ row.organization_id = organization_id
    /\ FromColumn(row.meta) = "{is_private:true}"

Min(a, b) == IF a < b THEN a ELSE b

\* The results cursor.fetchall() may give: any Limit of the selected rows (all of
\* them when there are fewer), in any order (the query has no ORDER BY).
FetchAll(st) ==
    LET sel == {i \in DOMAIN st : IsSelected(st[i])}
        n == Min(Limit, Cardinality(sel))
    IN  {s \in [1..n -> sel] : \A a, b \in 1..n : a # b => s[a] # s[b]}

\* PatchflowRun(run_data): the row with p_graph popped into run["patchflow"].
RunOf(i, row) ==
    [id |-> i, status |-> row.status, inputs |-> FromColumn(row.inputs),
     outputs |-> FromColumn(row.outputs), meta |-> FromColumn(row.meta),
     organization_id |-> row.organization_id,
     patchflow |-> [graph |-> FromColumn(row.p_graph)]]

NoRun ==
    [id |-> None, status |-> None, inputs |-> None, outputs |-> None, meta |-> None,
     organization_id |-> None, patchflow |-> [graph |-> None]]
NoProc == [state |-> "none", returncode |-> 0, capture |-> "ok", file |-> Absent]

InSeq(s) == {s[i] : i \in 1..Len(s)}

\* ------------------------------------------------------------------ run_patchflow
\* Lines 120-132 raise when the joined graph is NULL (no flow row matched the LEFT
\* JOIN) or inputs is NULL: None["name"], None.keys().
CmdBuilds(run) == run.patchflow.graph # None /\ run.inputs # None

\* Faulty variant of OnException: the handler logs and leaves the status as it is.
LeavesStatus(run) == run
\* Lines 163-165, except Exception: run["status"] = "failed"
OnException(run) == [run EXCEPT !.status = "failed"]

\* if process.returncode != 0: "failed" else: "pr_created"
StatusOf(returncode) == IF returncode # 0 THEN "failed" ELSE "pr_created"

\* Faulty variant of IsNextToStart: the tasks start in any order.
StartsInAnyOrder(d, r) == r \in InSeq(runs[d])
\* The event loop starts the tasks gather created in the order of its arguments.
IsNextToStart(d, r) ==
    \E i \in 1..Len(runs[d]) :
        /\ runs[d][i] = r
        /\ \A j \in 1..(i - 1) : tpc[d][runs[d][j]] # "created"

\* Faulty variants of AllDone: the tasks are not awaited; the first to finish ends the wait.
NotAwaited(d) == TRUE
AnyDone(d) == \E i \in 1..Len(runs[d]) : tpc[d][runs[d][i]] = "done"
\* asyncio.gather returns when every task it was given has finished.
AllDone(d) == \A i \in 1..Len(runs[d]) : tpc[d][runs[d][i]] = "done"

\* Faulty variant of AfterCycle: the one-shot entry point runs the daemon's loop.
AlwaysSleeps(d) == "sleep"
\* After check_and_run_pending: main() ends, main_loop sleeps.
AfterCycle(d) == IF mode[d] = "daemon" THEN "sleep" ELSE "exit"

\* A line check_and_run_pending logs on its own account.
CycleLog(level, msg) == [NoCall EXCEPT !.log = <<[level |-> level, msg |-> msg]>>]

\* Faulty variant of NoRunsFound: the empty result is reported with log.error.
NoRunsIsError == CycleLog("error", "No pending runs found")
\* Line 190: log.info("No pending runs found")
NoRunsFound == CycleLog("info", "No pending runs found")

\* Faulty variant of FetchError: the except clause of line 217 is missing, the
\* error leaves check_and_run_pending and ends the dispatcher.
FetchErrorEscapes(d) == "raised"
\* Lines 217-218: the error is logged, check_and_run_pending returns.
FetchError(d) == AfterCycle(d)
ErrorChecking == CycleLog("error", "Error checking pending runs")

\* ------------------------------------------------------------------ actions
\* get_db_connection or the query raises: logged at line 218, the cycle ends.
FetchFails(d) ==
    /\ pc[d] = "fetch"
    /\ pc' = [pc EXCEPT ![d] = FetchError(d)]
    /\ runs' = [runs EXCEPT ![d] = <<>>]
    /\ mem' = [mem EXCEPT ![d] = [r \in Runs |-> NoRun]]
    /\ tpc' = [tpc EXCEPT ![d] = [r \in Runs |-> "none"]]
    /\ proc' = [proc EXCEPT ![d] = [r \in Runs |-> NoProc]]
    /\ hist' = [hist EXCEPT ![d] = [r \in Runs |-> <<>>]]
    /\ io' = ErrorChecking
    /\ UNCHANGED <<store, procs, read_only, mode, cycle, cur, alive, launches>>

\* Lines 172-215 up to the await: the query, the PatchflowRun dicts, one
\* run_patchflow coroutine per row handed to gather; no row: logged, return.
Fetch(d) ==
    /\ pc[d] = "fetch"
    /\ \E s \in FetchAll(store) :
        /\ runs' = [runs EXCEPT ![d] = s]
        /\ pc' = [pc EXCEPT ![d] = IF Len(s) = 0 THEN AfterCycle(d) ELSE "gather"]
        /\ mem' = [mem EXCEPT ![d] =
                    [r \in Runs |-> IF r \in InSeq(s) THEN RunOf(r, store[r]) ELSE NoRun]]
        /\ tpc' = [tpc EXCEPT ![d] =
                    [r \in Runs |-> IF r \in InSeq(s) THEN "created" ELSE "none"]]
        /\ hist' = [hist EXCEPT ![d] =
                    [r \in Runs |-> IF r \in InSeq(s) THEN <<store[r].status>> ELSE <<>>]]
        /\ io' = IF Len(s) = 0 THEN NoRunsFound ELSE NoCall
    /\ proc' = [proc EXCEPT ![d] = [r \in Runs |-> NoProc]]
    /\ UNCHANGED <<store, procs, read_only, mode, cycle, cur, alive, launches>>

\* Lines 115-132 raise, lines 163-167 run: failed without running.
BuildFails(d, r) ==
    /\ pc[d] = "gather" /\ cur[d] = None
    /\ tpc[d][r] = "created" /\ IsNextToStart(d, r)
    /\ ~CmdBuilds(mem[d][r])
    /\ \E ok \in BOOLEAN :
        LET run == OnException(mem[d][r]) IN
        /\ mem' = [mem EXCEPT ![d][r] = run]
        /\ hist' = [hist EXCEPT ![d][r] = Append(@, run.status)]
        /\ Saves(d, run, {"status"}, ok)
    /\ tpc' = [tpc EXCEPT ![d][r] = "done"]
    /\ UNCHANGED <<procs, read_only, mode, pc, cycle, runs, cur, proc, alive, launches>>

\* Lines 115-139: the command, run["status"] = "running", save_run(run, ["status"]).
MarkRunning(d, r) ==
    /\ pc[d] = "gather" /\ cur[d] = None
    /\ tpc[d][r] = "created" /\ IsNextToStart(d, r)
    /\ CmdBuilds(mem[d][r])
    /\ \E ok \in BOOLEAN :
        LET run == [mem[d][r] EXCEPT !.status = "running"] IN
        /\ mem' = [mem EXCEPT ![d][r] = run]
        /\ hist' = [hist EXCEPT ![d][r] = Append(@, run.status)]
        /\ Saves(d, run, {"status"}, ok)
    /\ tpc' = [tpc EXCEPT ![d][r] = "marked"]
    /\ cur' = [cur EXCEPT ![d] = r]
    /\ UNCHANGED <<procs, read_only, mode, pc, cycle, runs, proc, alive, launches>>

\* Faulty variant of ReadyToSpawn: await promise stands before lines 138-139.
SpawnsUnmarked(d, r) ==
    /\ pc[d] = "gather" /\ cur[d] = None
    /\ tpc[d][r] = "created" /\ IsNextToStart(d, r)
    /\ CmdBuilds(mem[d][r])
\* Line 140 follows lines 138-139 in the same step of the task.
ReadyToSpawn(d, r) == tpc[d][r] = "marked" /\ cur[d] = r

\* Line 140, await promise: the child process is spawned and the task suspends.
Spawn(d, r) ==
    /\ ReadyToSpawn(d, r)
    /\ tpc' = [tpc EXCEPT ![d][r] = "communicate"]
    /\ cur' = [cur EXCEPT ![d] = None]
    /\ proc' = [proc EXCEPT ![d][r] = [NoProc EXCEPT !.state = "alive"]]
    /\ alive' = [alive EXCEPT ![d][r] = @ + 1]
    /\ launches' = [launches EXCEPT ![d][r] = @ + 1]
    /\ io' = NoCall
    /\ UNCHANGED <<store, procs, read_only, mode, pc, cycle, runs, mem, hist>>

\* Line 140 raises (no such executable, fork fails): lines 163-167.
SpawnFails(d, r) ==
    /\ tpc[d][r] = "marked" /\ cur[d] = r
    /\ \E ok \in BOOLEAN :
        LET run == OnException(mem[d][r]) IN
        /\ mem' = [mem EXCEPT ![d][r] = run]
        /\ hist' = [hist EXCEPT ![d][r] = Append(@, run.status)]
        /\ Saves(d, run, {"status"}, ok)
    /\ tpc' = [tpc EXCEPT ![d][r] = "done"]
    /\ cur' = [cur EXCEPT ![d] = None]
    /\ proc' = [proc EXCEPT ![d][r] = [NoProc EXCEPT !.state = "unlaunched"]]
    /\ UNCHANGED <<procs, read_only, mode, pc, cycle, runs, alive, launches>>

\* The child process ends: its exit code, whether its captured output decodes as
\* UTF-8, and what it left at output_path.
ProcessExit(d, r) ==
    /\ proc[d][r].state = "alive"
    /\ \E rc \in {0, 1}, cap \in {"ok", "raises"}, f \in Files :
        proc' = [proc EXCEPT ![d][r] =
                    [state |-> "exited", returncode |-> rc, capture |-> cap, file |-> f]]
    /\ alive' = [alive EXCEPT ![d][r] = @ - 1]
    /\ io' = NoCall
    /\ UNCHANGED <<store, procs, read_only, mode, pc, cycle, runs, mem, tpc, cur,
                   launches, hist>>

\* Lines 141-145 raise (communicate fails, stdout or stderr is not UTF-8): 163-167.
CaptureFails(d, r) ==
    /\ tpc[d][r] = "communicate" /\ cur[d] = None
    /\ proc[d][r].state = "exited" /\ proc[d][r].capture = "raises"
    /\ \E ok \in BOOLEAN :
        LET run == OnException(mem[d][r]) IN
        /\ mem' = [mem EXCEPT ![d][r] = run]
        /\ hist' = [hist EXCEPT ![d][r] = Append(@, run.status)]
        /\ Saves(d, run, {"status"}, ok)
    /\ tpc' = [tpc EXCEPT ![d][r] = "done"]
    /\ UNCHANGED <<procs, read_only, mode, pc, cycle, runs, cur, proc, alive, launches>>

\* Lines 141-154: the output is logged, the exit code decides the status.
Settle(d, r) ==
    /\ tpc[d][r] = "communicate" /\ cur[d] = None
    /\ proc[d][r].state = "exited" /\ proc[d][r].capture = "ok"
    /\ \E ok \in BOOLEAN :
        LET run == [mem[d][r] EXCEPT !.status = StatusOf(proc[d][r].returncode)] IN
        /\ mem' = [mem EXCEPT ![d][r] = run]
        /\ hist' = [hist EXCEPT ![d][r] = Append(@, run.status)]
        /\ Saves(d, run, {"status"}, ok)
    /\ tpc' = [tpc EXCEPT ![d][r] = "settled"]
    /\ cur' = [cur EXCEPT ![d] = r]
    /\ UNCHANGED <<procs, read_only, mode, pc, cycle, runs, proc, alive, launches>>

\* Lines 156-159: the output file parses, run["outputs"] = json.load(f), saved.
ReadOutputs(d, r) ==
    /\ tpc[d][r] = "settled" /\ cur[d] = r
    /\ proc[d][r].file \in Dicts
    /\ \E ok \in BOOLEAN :
        LET run == [mem[d][r] EXCEPT !.outputs = proc[d][r].file] IN
        /\ mem' = [mem EXCEPT ![d][r] = run]
        /\ Saves(d, run, {"outputs"}, ok)
    /\ tpc' = [tpc EXCEPT ![d][r] = "done"]
    /\ cur' = [cur EXCEPT ![d] = None]
    /\ UNCHANGED <<procs, read_only, mode, pc, cycle, runs, proc, alive, launches, hist>>

\* Lines 156-161: open or json.load raises, "No outputs found" is logged.
NoOutputs(d, r) ==
    /\ tpc[d][r] = "settled" /\ cur[d] = r
    /\ proc[d][r].file \notin Dicts
    /\ tpc' = [tpc EXCEPT ![d][r] = "done"]
    /\ cur' = [cur EXCEPT ![d] = None]
    /\ io' = NoCall
    /\ UNCHANGED <<store, procs, read_only, mode, pc, cycle, runs, mem, proc, alive,
                   launches, hist>>

\* Line 215: await asyncio.gather(*promises) returns; check_and_run_pending ends.
GatherReturns(d) ==
    /\ pc[d] = "gather" /\ cur[d] = None
    /\ AllDone(d)
    /\ pc' = [pc EXCEPT ![d] = AfterCycle(d)]
    /\ io' = NoCall
    /\ UNCHANGED <<store, procs, read_only, mode, cycle, runs, mem, tpc, cur, proc,
                   alive, launches, hist>>

\* Lines 233-236: asyncio.sleep(wait_time) is over, the next cycle starts.
Wake(d) ==
    /\ pc[d] = "sleep"
    /\ cycle[d] < MaxCycles
    /\ pc' = [pc EXCEPT ![d] = "fetch"]
    /\ cycle' = [cycle EXCEPT ![d] = @ + 1]
    /\ io' = NoCall
    /\ UNCHANGED <<store, procs, read_only, mode, runs, mem, tpc, cur, proc, alive,
                   launches, hist>>

\* How the dispatcher ends on SIGINT.  The daemon, interrupted while the event
\* loop is idle (main_task suspended at line 215 or 236, no task mid-step):
\* lines 246-254 cancel main_task, CancelledError reaches line 237, main_loop
\* breaks at line 239: "stopped".  Interrupted while the loop executes a task's
\* step, KeyboardInterrupt is raised inside that task: from a run_patchflow task
\* gather hands it to line 215 after the cancel of line 249, from main_task's
\* own step (the fetch) it leaves main_loop at once; no except clause of
\* main_loop catches it.  main() has no handler at all.  "raised".
LoopEnd(d) ==
    IF mode[d] = "daemon" /\ pc[d] \in {"gather", "sleep"} /\ cur[d] = None
    THEN "stopped"
    ELSE "raised"

\* Faulty variant of AfterCancel: line 163 catches the cancellation like any
\* exception (CancelledError was an Exception before Python 3.8) and saves failed.
CancelSavesFailed(d) ==
    [r \in Runs |->
        IF tpc[d][r] \in {"marked", "communicate"} /\ ~read_only[d]
        THEN [store[r] EXCEPT !.status = "failed"]
        ELSE store[r]]
\* CancelledError and KeyboardInterrupt are no Exception: neither line 163 nor
\* line 217 catches them, no line of save_run runs, the table stays as it is.
AfterCancel(d) == store

\* SIGINT: KeyboardInterrupt out of loop.run_until_complete (lines 225, 245); the
\* daemon cancels main_task (lines 246-254), which cancels gather and with it
\* every unfinished task.
Interrupt(d) ==
    /\ pc[d] \in {"fetch", "gather", "sleep"}
    /\ pc' = [pc EXCEPT ![d] = LoopEnd(d)]
    /\ tpc' = [tpc EXCEPT ![d] =
                [r \in Runs |-> IF tpc[d][r] \in {"none", "done"} THEN tpc[d][r]
                                ELSE "cancelled"]]
    /\ cur' = [cur EXCEPT ![d] = None]
    /\ store' = AfterCancel(d)
    /\ io' = NoCall
    /\ UNCHANGED <<procs, read_only, mode, cycle, runs, mem, proc, alive,
                   launches, hist>>

\* ------------------------------------------------------------------ specifications
\* The rows an authoring system or an earlier dispatcher may have left.
Rows ==
    [status : Statuses, inputs : {JsonDumps("{in}")}, outputs : {None},
     meta : {JsonDumps(m) : m \in MetaDicts}, organization_id : OrgIds,
     p_graph : {None, JsonDumps("{name}")}]

\* The dispatchers in ps start; the others never run.
Idle(ps) ==
    /\ procs = ps
    /\ pc = [d \in Disp |-> IF d \in ps THEN "fetch" ELSE "off"]
    /\ cycle = [d \in Disp |-> IF d \in ps THEN 1 ELSE 0]
    /\ runs = [d \in Disp |-> <<>>]
    /\ tpc = [d \in Disp |-> [r \in Runs |-> "none"]]
    /\ cur = [d \in Disp |-> None]
    /\ proc = [d \in Disp |-> [r \in Runs |-> NoProc]]
    /\ alive = [d \in Disp |-> [r \in Runs |-> 0]]
    /\ launches = [d \in Disp |-> [r \in Runs |-> 0]]
    /\ hist = [d \in Disp |-> [r \in Runs |-> <<>>]]
    /\ io = NoCall

Started(ps) == Idle(ps) /\ mem = [d \in Disp |-> [r \in Runs |-> NoRun]]

\* One dispatcher process on the table.
Init ==
    /\ store \in [Runs -> Rows]
    /\ \E ro \in BOOLEAN : read_only = [d \in Disp |-> ro]
    /\ \E m \in {"oneshot", "daemon"} : mode = [d \in Disp |-> m]
    /\ Started({"A"})

Next ==
    \/ \E d \in procs : FetchFails(d)
    \/ \E d \in procs : Fetch(d)
    \/ \E d \in procs, r \in Runs : BuildFails(d, r)
    \/ \E d \in procs, r \in Runs : MarkRunning(d, r)
    \/ \E d \in procs, r \in Runs : Spawn(d, r)
    \/ \E d \in procs, r \in Runs : SpawnFails(d, r)
    \/ \E d \in procs, r \in Runs : ProcessExit(d, r)
    \/ \E d \in procs, r \in Runs : CaptureFails(d, r)
    \/ \E d \in procs, r \in Runs : Settle(d, r)
    \/ \E d \in procs, r \in Runs : ReadOutputs(d, r)
    \/ \E d \in procs, r \in Runs : NoOutputs(d, r)
    \/ \E d \in procs : GatherReturns(d)
    \/ \E d \in procs : Wake(d)
    \/ \E d \in procs : Interrupt(d)

Spec == Init /\ [][Next]_vars

\* Two dispatcher processes poll the same table, writes enabled: A is a daemon,
\* B a one-shot run.  r1 is selected by the query, r2 belongs to another
\* organization.
InitMulti ==
    /\ \E g \in {None, JsonDumps("{name}")} :
        store = [r \in Runs |->
                    [status |-> "pending", inputs |-> JsonDumps("{in}"), outputs |-> None,
                     meta |-> JsonDumps("{is_private:true}"),
                     organization_id |-> IF r = "r1" THEN "org" ELSE "other",
                     p_graph |-> g]]
    /\ read_only = [d \in Disp |-> FALSE]
    /\ mode = [d \in Disp |-> IF d = "A" THEN "daemon" ELSE "oneshot"]
    /\ Started(Disp)

SpecMulti == InitMulti /\ [][Next]_vars

\* save_run on its own: any table, any run dict, any `only`, either setting of
\* READ_ONLY, the database accepting the update or not.
SaveRows ==
    [status : {"pending", "running"}, inputs : {JsonDumps("{in}")},
     outputs : {None, JsonDumps("{old}")}, meta : {JsonDumps("{is_private:true}")},
     organization_id : {"org"}, p_graph : {JsonDumps("{name}")}]
SaveRuns(i) ==
    [id : {i}, status : {"running", "failed"}, inputs : {"{in2}"},
     outputs : {None, "{result}"}, meta : {"{is_private:true}"},
     organization_id : {"org"}, patchflow : {[graph |-> "{name}"]}]

InitSave ==
    /\ store \in [Runs -> SaveRows]
    /\ \E ro \in BOOLEAN : read_only = [d \in Disp |-> ro]
    /\ mode = [d \in Disp |-> "oneshot"]
    /\ Idle({})
    /\ \E m \in [Runs -> UNION {SaveRuns(i) : i \in Runs}] :
        /\ \A i \in Runs : m[i].id = i
        /\ mem = [d \in Disp |-> m]

\* One call save_run(run, only) on the drawn table.
SaveCall(i, only, ok) ==
    /\ io = NoCall
    /\ Saves("A", mem["A"][i], only, ok)
    /\ UNCHANGED <<procs, read_only, mode, pc, cycle, runs, mem, tpc, cur, proc, alive,
                   launches, hist>>

\* The values of `only` tried: lists over these keys ("name" is no key of a run),
\* and the default.
OnlyKeysTried == {"status", "outputs", "inputs", "patchflow", "name"}

NextSave == \E i \in Runs, only \in (SUBSET OnlyKeysTried) \cup {NoOnly}, ok \in BOOLEAN :
                SaveCall(i, only, ok)

SpecSave == InitSave /\ [][NextSave]_vars

\* main() on any table: one poll cycle.  The event loop runs whatever task is
\* ready, and every child process that was launched exits in the end; SIGINT
\* may come at any time or never.
InitMain ==
    /\ store \in [Runs -> Rows]
    /\ \E ro \in BOOLEAN : read_only = [d \in Disp |-> ro]
    /\ mode = [d \in Disp |-> "oneshot"]
    /\ Started({"A"})

NextMain ==
    \/ \E d \in procs : FetchFails(d)
    \/ \E d \in procs : Fetch(d)
    \/ \E d \in procs, r \in Runs : BuildFails(d, r)
    \/ \E d \in procs, r \in Runs : MarkRunning(d, r)
    \/ \E d \in procs, r \in Runs : Spawn(d, r)
    \/ \E d \in procs, r \in Runs : SpawnFails(d, r)
    \/ \E d \in procs, r \in Runs : ProcessExit(d, r)
    \/ \E d \in procs, r \in Runs : CaptureFails(d, r)
    \/ \E d \in procs, r \in Runs : Settle(d, r)
    \/ \E d \in procs, r \in Runs : ReadOutputs(d, r)
    \/ \E d \in procs, r \in Runs : NoOutputs(d, r)
    \/ \E d \in procs : GatherReturns(d)
    \/ \E d \in procs : Interrupt(d)

\* A step of the event loop of loop.run_until_complete (line 225).
LoopStep ==
    \E d \in procs :
        \/ FetchFails(d) \/ Fetch(d) \/ GatherReturns(d)
        \/ \E r \in Runs :
            \/ BuildFails(d, r) \/ MarkRunning(d, r) \/ Spawn(d, r) \/ SpawnFails(d, r)
            \/ CaptureFails(d, r) \/ Settle(d, r) \/ ReadOutputs(d, r) \/ NoOutputs(d, r)
\* A child process ends.
ChildExit == \E d \in procs, r \in Runs : ProcessExit(d, r)

SpecMain == InitMain /\ [][NextMain]_vars /\ WF_vars(LoopStep) /\ WF_vars(ChildExit)

\* ------------------------------------------------------------------ claims
\* Forward order of the status values.
Rank(status) == CASE status = "pending" -> 0 [] status = "running" -> 1 [] OTHER -> 2

\* C1: for every run fetched in a cycle, the status values run_patchflow assigns
\* are pending, then running, then one of pr_created or failed; no run gets
\* pr_created or failed without having been set to running first.  (Stated as
\* claimed; the code breaks it when building the command raises.)
C1_PendingRunningTerminal ==
    \A d \in procs, r \in Runs :
        tpc[d][r] # "none" =>
            \E t \in Terminal :
                hist[d][r] \in {<<"pending">>, <<"pending", "running">>,
                                <<"pending", "running", t>>}

\* C2, as claimed: at no time do two child processes run for the same run id,
\* also when two dispatcher processes poll the same table.
C2_OneChildPerRunOverall ==
    \A r \in Runs :
        /\ Cardinality({d \in procs : alive[d][r] > 0}) <= 1
        /\ \A d \in procs : alive[d][r] <= 1

\* C2, amended: the cycles of one dispatcher process never have two child
\* processes running for the same run id at the same time.
C2_OneChildPerRunPerDispatcher ==
    \A d \in procs, r \in Runs : alive[d][r] <= 1

\* C2 witness: dispatcher A launched r1 in its first cycle and has launched it
\* again in its second, the child of the second cycle running.
C2_Witness ==
    /\ cycle["A"] = 2
    /\ launches["A"]["r1"] = 2
    /\ alive["A"]["r1"] = 1

\* C3: with one dispatcher, whatever writes fail, a stored status never becomes
\* pending, never changes once it is pr_created or failed, and only moves
\* forward.
C3_StoredStatusMovesForward ==
    [][\A r \in Runs :
        store'[r].status # store[r].status =>
            /\ store'[r].status # "pending"
            /\ store[r].status \notin Terminal
            /\ Rank(store'[r].status) > Rank(store[r].status)]_vars

\* C3 witness: r1 was dispatched in the first cycle, its terminal status was
\* stored, and a second cycle has run to its end.
C3_Witness ==
    /\ pc["A"] = "sleep" /\ cycle["A"] = 2
    /\ launches["A"]["r1"] = 1
    /\ store["r1"].status = "pr_created"

\* C4: in daemon mode, between two cycles (asleep, or about to fetch) no task
\* of the last cycle is unfinished: every run it launched holds a terminal
\* status and has no child process alive.
C4_NoFetchBeforeAllFinished ==
    \A d \in procs :
        (mode[d] = "daemon" /\ pc[d] \in {"sleep", "fetch"}) =>
            \A r \in Runs :
                /\ tpc[d][r] \in {"none", "done"}
                /\ alive[d][r] = 0
                /\ tpc[d][r] = "done" => mem[d][r].status \in Terminal

\* C4 witness: the daemon is about to fetch its second cycle after a first
\* cycle that launched both runs.
C4_Witness ==
    /\ mode["A"] = "daemon" /\ pc["A"] = "fetch" /\ cycle["A"] = 2
    /\ \A r \in Runs : launches["A"][r] = 1

\* C5: a daemon with dry-run disabled launches the child process at most once
\* per run id, whatever writes fail.  (Stated as claimed; the code launches a
\* run again when its status writes failed.)
C5_LaunchedAtMostOnce ==
    \A d \in procs, r \in Runs :
        (mode[d] = "daemon" /\ ~read_only[d]) => launches[d][r] <= 1

\* C6: once the child process of a run has exited and the run holds its
\* terminal status, that status is pr_created exactly if the exit code is 0 and
\* failed exactly if it is not.  (Stated as claimed; the code records failed
\* for exit code 0 when logging the captured output raises.)
C6_StatusFollowsExitCode ==
    \A d \in procs, r \in Runs :
        (proc[d][r].state = "exited" /\ tpc[d][r] \in {"settled", "done"}) =>
            /\ mem[d][r].status = "pr_created" <=> proc[d][r].returncode = 0
            /\ mem[d][r].status = "failed" <=> proc[d][r].returncode # 0

\* C7: a run whose launch failed ends failed and finished, and the cycle does
\* not end before every run fetched with it has run to a terminal status.
C7_LaunchFailureIsolated ==
    \A d \in procs, r \in Runs :
        proc[d][r].state = "unlaunched" =>
            /\ tpc[d][r] = "done"
            /\ mem[d][r].status = "failed"
            /\ \A q \in InSeq(runs[d]) :
                /\ tpc[d][q] # "none"
                /\ pc[d] \in {"sleep", "fetch", "exit"} =>
                    (tpc[d][q] = "done" /\ mem[d][q].status \in Terminal)

\* C7 witness: r1's launch failed, r2, fetched after it, was launched and ended
\* pr_created, and the cycle is over.
C7_Witness ==
    /\ pc["A"] \in {"sleep", "exit"}
    /\ runs["A"] = <<"r1", "r2">>
    /\ proc["A"]["r1"].state = "unlaunched"
    /\ proc["A"]["r2"].state = "exited"
    /\ mem["A"]["r2"].status = "pr_created"

\* C8: when a run's task has finished after its child process exited, a file
\* at output_path that parses is the run's outputs, whatever the exit code; with
\* no file or an unparseable one the outputs are those fetched and the status
\* is the one the exit code gave.  (Stated as claimed; the code skips the file
\* when logging the captured output raises.)
C8_OutputsReadAfterExit ==
    \A d \in procs, r \in Runs :
        (tpc[d][r] = "done" /\ proc[d][r].state = "exited") =>
            IF proc[d][r].file \in Dicts
            THEN mem[d][r].outputs = proc[d][r].file
            ELSE /\ mem[d][r].outputs = FromColumn(store[r].outputs)
                 /\ mem[d][r].status \in Terminal

\* C9: a call save_run(run, only) changes no stored field but those named in
\* only, of the row with run's id.
C9_OnlyNamedFieldsChange ==
    [][\A i \in Runs, c \in Columns :
        store'[i][c] # store[i][c] => (i = io'.id /\ c \in io'.only)]_vars

\* C9 witness: save_run(run, ["status"]) has written r1's status while the run
\* in memory holds inputs and outputs that differ from the stored ones.
C9_Witness ==
    /\ io.id = "r1" /\ io.only = {"status"} /\ ~io.dry /\ io.log = <<>>
    /\ store["r1"].status = mem["A"]["r1"].status
    /\ store["r1"].outputs # UpdateValue(mem["A"]["r1"].outputs)
    /\ store["r1"].inputs # UpdateValue(mem["A"]["r1"].inputs)

\* C10: with READ_ONLY set, no step changes the table, and every call of
\* save_run logs exactly one line, which shows the fields and values of the
\* update it did not make.
C10_DryRunWritesNothing ==
    [][\A d \in procs :
        read_only[d] =>
            /\ store' = store
            /\ io'.id # None =>
                io'.log = <<[level |-> "info", msg |-> "Would update run",
                             id |-> io'.id, fields |-> io'.only,
                             values |-> [k \in io'.only |->
                                            UpdateValue(mem'[d][io'.id][k])]]>>]_vars

\* C10 witness: under READ_ONLY a cycle fetched r1, launched its child process
\* and has just logged the update of outputs it would have made.
C10_Witness ==
    /\ read_only["A"]
    /\ launches["A"]["r1"] = 1
    /\ io.id = "r1" /\ io.only = {"outputs"} /\ Len(io.log) = 1
    /\ store["r1"].status = "pending"

\* C11: a poll cycle whose fetch returns no row (and does not fail) writes
\* nothing to the table, calls save_run not at all, launches no child process,
\* creates no task, logs no error and ends the way every cycle ends: the
\* one-shot run exits, the daemon goes to sleep.
C11_EmptyCycleIsNoOp ==
    [][\A d \in procs :
        (/\ pc[d] = "fetch" /\ pc'[d] \in {"gather", "sleep", "exit"}
         /\ runs'[d] = <<>>
         /\ io' # ErrorChecking) =>
            /\ store' = store
            /\ io'.id = None
            /\ launches' = launches /\ alive' = alive
            /\ \A r \in Runs : tpc'[d][r] = "none"
            /\ \A i \in 1..Len(io'.log) : io'.log[i].level # "error"
            /\ pc'[d] = AfterCycle(d)]_vars

\* C11 witness: the daemon launched r1 in its first cycle, r2 was never
\* selectable, and its second cycle has just found no pending run.
C11_Witness ==
    /\ pc["A"] = "sleep" /\ cycle["A"] = 2
    /\ runs["A"] = <<>> /\ io = NoRunsFound
    /\ launches["A"]["r1"] = 1 /\ launches["A"]["r2"] = 0

\* C12: a poll cycle whose fetch fails writes nothing, marks no run running,
\* creates no task and launches no child process; the error is logged and ends
\* the cycle like any other (it does not end the dispatcher); a sleeping daemon
\* can always wake for a further cycle, and leaves its sleep only for the next
\* fetch or because it was cancelled.
C12_FetchFailureEndsCycleOnly ==
    /\ [][\A d \in procs :
            /\ (pc[d] = "fetch" /\ pc'[d] # "fetch" /\ io' = ErrorChecking) =>
                /\ store' = store
                /\ launches' = launches /\ alive' = alive
                /\ \A r \in Runs : tpc'[d][r] = "none" /\ hist'[d][r] = <<>>
                /\ pc'[d] = AfterCycle(d)
            /\ (mode[d] = "daemon" /\ pc[d] = "sleep" /\ pc'[d] # "sleep") =>
                \/ pc'[d] = "fetch" /\ cycle'[d] = cycle[d] + 1
                \/ pc'[d] = "stopped" /\ cycle'[d] = cycle[d]]_vars
    /\ [](\A d \in procs :
            (pc[d] = "sleep" /\ cycle[d] < MaxCycles) => ENABLED Wake(d))

\* C12 witness: the daemon's first fetch failed while r1 was waiting to be
\* selected; r1 is untouched and the daemon is asleep.
C12_Witness ==
    /\ mode["A"] = "daemon" /\ pc["A"] = "sleep" /\ cycle["A"] = 1
    /\ io = ErrorChecking
    /\ IsSelected(store["r1"])
    /\ launches["A"]["r1"] = 0

Seconds == {"2026-01-01T00-00-00", "2026-01-01T00-00-01"}
\* Line 117 (output_dir left out): f"{now:%Y-%m-%dT%H-%M-%S}_run_{run['id']}.json"
OutputPath(now, id) == now \o "_run_" \o id \o ".json"

\* C14: when a poll cycle that fetched K runs has ended, the executable was
\* started in that cycle for every one of the K runs, once each, and the output
\* paths of different runs differ whatever second each was started in.  (Stated
\* as claimed; the code starts no process for a run whose command cannot be
\* built, the p_graph NULL case of C1.)
C14_OneInvocationPerFetchedRun ==
    \A d \in procs :
        (pc[d] \in {"sleep", "exit"} /\ Len(runs[d]) \in 1..Limit) =>
            /\ \A r \in InSeq(runs[d]) : proc[d][r].state = "exited"
            /\ \A q, r \in InSeq(runs[d]) : \A s, t \in Seconds :
                q # r => OutputPath(s, q) # OutputPath(t, r)

\* C15: main(), every launched child process exiting in the end: the dispatcher
\* starts exactly one poll cycle; unless SIGINT ends it first it reaches the end
\* of main(); and when main() has ended, every run the cycle fetched has a
\* finished task, a terminal status and no child process alive, whatever the
\* outcomes of the runs.
C15_OneShotRunsOneCycleAndEnds ==
    /\ [](cycle["A"] = 1)
    /\ [](pc["A"] = "exit" =>
            \A r \in InSeq(runs["A"]) :
                /\ tpc["A"][r] = "done"
                /\ mem["A"][r].status \in Terminal
                /\ alive["A"][r] = 0)
    /\ <>(pc["A"] \in {"exit", "raised"})
    /\ ([](pc["A"] # "raised") => <>[](pc["A"] = "exit"))

\* C15 witness: main() has ended after a cycle that fetched both runs; one
\* ended pr_created, the other failed.
C15_Witness ==
    /\ pc["A"] = "exit"
    /\ runs["A"] = <<"r1", "r2">>
    /\ mem["A"]["r1"].status = "pr_created"
    /\ mem["A"]["r2"].status = "failed"

\* C16: the step of run_patchflow that sets a run's status to running issues
\* save_run(run, ["status"]) for it, and a child process is started for a run
\* only by a task that has taken that step as its last assignment of a status:
\* no child process is started before the running write was issued.
C16_RunningWriteBeforeSpawn ==
    [][\A d \in procs, r \in Runs :
        /\ (hist'[d][r] # hist[d][r] /\ mem'[d][r].status = "running") =>
            (io'.id = r /\ io'.only = {"status"} /\ launches'[d][r] = launches[d][r])
        /\ launches'[d][r] # launches[d][r] =>
            /\ tpc[d][r] = "marked"
            /\ mem[d][r].status = "running"
            /\ hist[d][r][Len(hist[d][r])] = "running"
            /\ hist'[d][r] = hist[d][r]]_vars

\* C16 witness: r1's child process is running, the running write that preceded
\* it reached the table.
C16_Witness ==
    /\ proc["A"]["r1"].state = "alive"
    /\ tpc["A"]["r1"] = "communicate"
    /\ hist["A"]["r1"] = <<"pending", "running">>
    /\ store["r1"].status = "running"

\* C17: within a poll cycle a run is marked running only when every run fetched
\* before it has had its turn (was marked running, or failed before that), so
\* the runs are marked running in fetch order; the order in which they finish
\* is free (the witness has the run fetched last finish first).
C17_MarkedRunningInFetchOrder ==
    [][\A d \in procs : \A j \in 1..Len(runs[d]) :
        (/\ hist'[d][runs[d][j]] # hist[d][runs[d][j]]
         /\ mem'[d][runs[d][j]].status = "running") =>
            \A i \in 1..(j - 1) :
                /\ tpc[d][runs[d][i]] # "created"
                /\ Len(hist[d][runs[d][i]]) >= 2]_vars

\* C17 witness: r1 was fetched and marked running before r2; r2's task has
\* finished with pr_created while r1's child process is still running.
C17_Witness ==
    /\ runs["A"] = <<"r1", "r2">>
    /\ pc["A"] = "gather"
    /\ tpc["A"]["r2"] = "done" /\ hist["A"]["r2"] = <<"pending", "running", "pr_created">>
    /\ tpc["A"]["r1"] = "communicate" /\ proc["A"]["r1"].state = "alive"
    /\ hist["A"]["r1"] = <<"pending", "running">>

\* C18: whenever run_patchflow records a terminal status for a run, by the exit
\* code or because an exception was raised, the task goes on to the attempt to
\* read the output file: it does not finish in the step that recorded the
\* status, and it finishes only by that attempt.  (Stated as claimed; the code
\* returns from its exception handler without the attempt.)
C18_OutputsAttemptedAfterTerminal ==
    [][\A d \in procs, r \in Runs :
        /\ (hist'[d][r] # hist[d][r] /\ mem'[d][r].status \in Terminal) =>
            tpc'[d][r] = "settled"
        /\ (tpc[d][r] # "done" /\ tpc'[d][r] = "done") =>
            /\ tpc[d][r] = "settled"
            /\ \/ proc[d][r].file \notin Dicts
               \/ mem'[d][r].outputs = proc[d][r].file /\ io'.only = {"outputs"}]_vars

\* The child processes of dispatcher d that are alive, over the runs in S.
RECURSIVE SumAlive(_, _)
SumAlive(d, S) ==
    IF S = {} THEN 0
    ELSE LET r == CHOOSE x \in S : TRUE IN alive[d][r] + SumAlive(d, S \ {r})

C20_CancelWritesNothing ==
    [][\A d \in procs :
        (mode[d] = "daemon" /\ pc[d] = "gather" /\ pc'[d] \in {"stopped", "raised"}) =>
            /\ io'.id = None /\ io'.log = <<>>
            /\ mem' = mem
            /\ \A r \in Runs :
                tpc[d][r] \in {"marked", "communicate"} =>
                    /\ tpc'[d][r] = "cancelled"
                    /\ store'[r] = store[r]
                    /\ store[r].status = "running" => store'[r].status = "running"]_vars

\* C20 witness: the daemon was cancelled while r1's child process was running;
\* main_loop has ended, the process is still alive and r1 is stored as running.
C20_Witness ==
    /\ mode["A"] = "daemon" /\ pc["A"] = "stopped"
    /\ tpc["A"]["r1"] = "cancelled"
    /\ proc["A"]["r1"].state = "alive"
    /\ hist["A"]["r1"] = <<"pending", "running">>
    /\ store["r1"].status = "running"

====
